---- MODULE Spec2Model ----
(***************************************************************************)
(* Model of the hybrid search engine of Star Seeker (src/search_engine.py) *)
(* of the two tools that feed and query it (src/server.py), of the clients *)
(* that page through the stars of a user (src/github_client.py and         *)
(* src/fetch_stars.py) and of the chat sessions of the playground          *)
(* (src/agent_playground.py).                                              *)
(*                                                                         *)
(* A word is a sequence of one-character strings, a text is a sequence of  *)
(* words (what str.split() yields), a vector is a pair of integers.        *)
(* Scores are exact rationals <<num, den>> with den > 0, so that the       *)
(* orderings the code computes with floats are computed exactly here.      *)
(* BM25 scores are kept in thousandths.                                    *)
(***************************************************************************)
EXTENDS Integers, Sequences, FiniteSets, TLC

VARIABLES
    stars_file,        \* <DATA_DIR>/<username>_stars.json
    cache_file,        \* <DATA_DIR>/<username>_stars_embeddings.pkl
    repos,             \* StarSearcher.repos
    descriptions,      \* StarSearcher.descriptions
    bm25,              \* StarSearcher.bm25
    embeddings,        \* StarSearcher.embeddings
    embedding_source,  \* StarSearcher.embedding_source
    google_client,     \* StarSearcher.google_client (TRUE: a client exists)
    session,           \* what the load of this searcher did (history)
    chat_sessions,     \* agent_playground.chat_sessions: session id -> chat
    gemini_clients,    \* agent_playground.gemini_clients: session id -> client
    clients_created,   \* the number of genai.Client objects created so far
    last               \* the operation in progress, its inputs and its outcome

vars == <<stars_file, cache_file, repos, descriptions, bm25, embeddings,
          embedding_source, google_client, session, chat_sessions,
          gemini_clients, clients_created, last>>

----------------------------------------------------------------------------
(* Bounds *)

MaxDocs == 3
MaxLimit == 2
MaxBatches == 3
MaxPages == 3
MaxLoadBatches == 2
MaxClients == 4

(* Program constants *)

batch_size == 100
k == 60
REPO_STAR_THRESHOLD == 10
per_page == 100
page_limit == 50
STAR_LIMIT == 10
search_limit == 5
retries_four == 3 + 1
retries == 3

----------------------------------------------------------------------------
(* Words, documents, queries *)

LowerChar(c) ==
    CASE c = "M" -> "m"
      [] c = "L" -> "l"
      [] c = "P" -> "p"
      [] c = "Y" -> "y"
      [] OTHER -> c

Lower(word) == [i \in 1..Len(word) |-> LowerChar(word[i])]

LowerText(text) == [i \in 1..Len(text) |-> Lower(text[i])]

W_py   == <<"p", "y">>
W_Py   == <<"P", "y">>
W_ui   == <<"u", "i">>
W_go   == <<"g", "o">>
W_ml   == <<"m", "l">>
W_ML   == <<"M", "L">>
W_html == <<"h", "t", "m", "l">>
W_lib  == <<"l", "i", "b">>
W_zz   == <<"z", "z">>
W_db   == <<"d", "b">>

\* The repositories a user may have starred.  A missing description (None)
\* and an empty one are both the empty text: line 62 maps None to "".
RepoUi == [full_name |-> W_ui, description |-> <<W_html, W_lib>>,
           topics |-> <<>>, stars |-> 200]
RepoPy == [full_name |-> W_Py, description |-> <<W_ML, W_lib>>,
           topics |-> <<>>, stars |-> 150]
RepoGo == [full_name |-> W_go, description |-> <<>>,
           topics |-> <<W_ml, W_lib>>, stars |-> 50]
RepoDb == [full_name |-> W_db, description |-> <<W_py>>,
           topics |-> <<>>, stars |-> 10]

\* The user's stars in the order the API lists them.
Starred == <<RepoUi, RepoPy, RepoGo, RepoDb>>

Range(s) == {s[i] : i \in 1..Len(s)}

\* The stars lists a fetch can store: the user stars and unstars
\* repositories, the API keeps their order.
Corpora ==
    {[j \in 1..Cardinality(S) |->
         Starred[CHOOSE i \in S : Cardinality({x \in S : x < i}) = j - 1]] :
        S \in {T \in SUBSET (1..Len(Starred)) : Cardinality(T) <= MaxDocs}}

Queries == {<<>>, <<W_py, W_ml>>, <<W_ML>>, <<W_zz>>}

Limits == 0..MaxLimit

----------------------------------------------------------------------------
(* Rational scores and Python's stable descending sort *)

Rat(n) == <<n, 1>>

RatGt(a, b) == a[1] * b[2] > b[1] * a[2]

RatEq(a, b) == a[1] * b[2] = b[1] * a[2]

RatAdd(a, b) == <<a[1] * b[2] + b[1] * a[2], a[2] * b[2]>>

\* keys: a function on 0..n-1.  Position, in the list sorted with
\* list.sort(key=..., reverse=True), of the element that stood at p:
\* the sort is stable, so equal keys keep their original order.
SortedPos(keys, n, p) ==
    Cardinality({r \in 0..(n - 1) : RatGt(keys[r], keys[p])})
    + Cardinality({r \in 0..(n - 1) : r < p /\ RatEq(keys[r], keys[p])})

\* The sorted list itself, as the original positions in sorted order
\* (a function on 0..n-1).
SortDesc(keys, n) ==
    [pos \in 0..(n - 1) |->
        CHOOSE p \in 0..(n - 1) : SortedPos(keys, n, p) = pos]

RECURSIVE TupleOf(_, _)
\* <<f[0], ..., f[n-1]>>
TupleOf(f, n) == IF n = 0 THEN <<>> ELSE Append(TupleOf(f, n - 1), f[n - 1])

\* the function f on 0..n-1, with its values computed once
Eager(f, n) == LET t == TupleOf(f, n) IN [i \in 0..(n - 1) |-> t[i + 1]]

\* Truncate with the slice forgotten
TruncateNoCut(lst, limit) == lst

\* lst[:limit] for limit >= 0, on a 1-based sequence
Truncate(lst, limit) ==
    IF limit >= Len(lst) THEN lst ELSE SubSeq(lst, 1, limit)

----------------------------------------------------------------------------
(* rank_bm25.BM25Okapi, as search_engine.py uses it (k1 = 1.5, b = 0.75,   *)
(* epsilon = 0.25).  An index is the tokenized corpus it was built from.  *)

\* 1000 * ln(n) for n = 1, 3, 5, ..., 15, rounded
LnOdd == <<0, 1099, 1609, 1946, 2197, 2398, 2565, 2708>>

RECURSIVE SumTo(_, _)
\* f(1) + ... + f(n) for a function f on 1..n
SumTo(f, n) == IF n = 0 THEN 0 ELSE f[n] + SumTo(f, n - 1)

\* number of occurrences of word in the token list doc
Freq(word, doc) == Cardinality({i \in 1..Len(doc) : doc[i] = word})

corpus_size(corpus) == Len(corpus)

\* nd[word]: the number of documents that hold the word
DocCount(corpus, word) ==
    Cardinality({d \in 1..Len(corpus) : Freq(word, corpus[d]) > 0})

Vocabulary(corpus) == UNION {Range(corpus[d]) : d \in 1..Len(corpus)}

\* sum of the document lengths; avgdl = TotalLen / corpus_size
TotalLen(corpus) == SumTo([d \in 1..Len(corpus) |-> Len(corpus[d])], Len(corpus))

\* log(corpus_size - freq + 0.5) - log(freq + 0.5), in thousandths
RawIdf(corpus, word) ==
    LET n  == corpus_size(corpus)
        nd == DocCount(corpus, word)
    IN  LnOdd[(n - nd) + 1] - LnOdd[nd + 1]

RECURSIVE IdfSum(_, _)
\* idf_sum over the words of S
IdfSum(S, corpus) ==
    IF S = {} THEN 0
    ELSE LET x == CHOOSE y \in S : TRUE
         IN  RawIdf(corpus, x) + IdfSum(S \ {x}, corpus)

\* average_idf = idf_sum / len(self.idf)
average_idf(corpus) ==
    IdfSum(Vocabulary(corpus), corpus) \div Cardinality(Vocabulary(corpus))

\* self.idf.get(q) or 0, with the negative idfs replaced by epsilon * average_idf
Idf(corpus, word) ==
    IF word \notin Vocabulary(corpus) THEN 0
    ELSE IF RawIdf(corpus, word) < 0 THEN average_idf(corpus) \div 4
    ELSE RawIdf(corpus, word)

\* idf * f * (k1 + 1) / (f + k1 * (1 - b + b * doc_len / avgdl)), with
\* numerator and denominator multiplied by 8 * TotalLen
TermScore(corpus, word, d) ==
    LET f     == Freq(word, corpus[d])
        total == TotalLen(corpus)
    IN  IF f = 0 THEN 0
        ELSE (Idf(corpus, word) * 20 * f * total)
             \div (8 * f * total + 3 * total + 9 * Len(corpus[d]) * corpus_size(corpus))

\* BM25Okapi.get_scores: one score per document, a function on 0..n-1
get_scores(corpus, query) ==
    Eager([i \in 0..(Len(corpus) - 1) |->
              SumTo([t \in 1..Len(query) |-> TermScore(corpus, query[t], i + 1)],
                    Len(query))],
          Len(corpus))

NoBm25 == [built |-> FALSE, corpus |-> <<>>]

\* BM25Okapi(tokenized_corpus)
BM25Okapi(tokenized_corpus) == [built |-> TRUE, corpus |-> tokenized_corpus]

----------------------------------------------------------------------------
(* The embedding provider (text-embedding-004) and the cosine similarity *)

\* The vector the provider returns for a repository text, a function of the
\* text; a text starts with the repository's full name.
EmbedText(text) ==
    CASE Lower(text[1]) = W_ui -> <<1, 0>>
      [] Lower(text[1]) = W_py -> <<1, 1>>
      [] Lower(text[1]) = W_go -> <<0, 1>>
      [] Lower(text[1]) = W_db -> <<1, 2>>
      [] OTHER -> <<0, 0>>

\* The vector the provider returns for a query.
EmbedQuery(query) ==
    CASE query = <<W_py, W_ml>> -> <<0, 1>>
      [] query = <<W_ML>> -> <<1, 1>>
      [] query = <<W_zz>> -> <<1, -1>>
      [] OTHER -> <<0, 0>>

\* What one embed_content call on a batch can do: return one vector per
\* text, raise, or return fewer vectors than texts.
ProviderOutcomes == {"ok", "fail", "short"}

embed_content(batch, outcome) ==
    LET all == [i \in 1..Len(batch) |-> EmbedText(batch[i])]
    IN  IF outcome = "short" THEN SubSeq(all, 1, Len(all) - 1) ELSE all

Dot(u, v) == u[1] * v[1] + u[2] * v[2]

\* np.dot(q, d) / (norm_q * norm_d) if norm_d > 0 and norm_q > 0 else 0.
\* The rational returned is sign(c) * c^2 for the cosine c: a strictly
\* increasing function of c, so it orders and ties the documents as c does.
CosineScore(query_vec, doc_vec) ==
    LET qq == Dot(query_vec, query_vec)
        dd == Dot(doc_vec, doc_vec)
        qd == Dot(query_vec, doc_vec)
    IN  IF dd > 0 /\ qq > 0
        THEN <<(IF qd < 0 THEN -1 ELSE 1) * qd * qd, qq * dd>>
        ELSE Rat(0)

----------------------------------------------------------------------------
(* StarSearcher: construction and load *)

NoEmbeddings == [present |-> FALSE, vectors |-> <<>>]

NoFile == [exists |-> FALSE, repos |-> <<>>]

NoCache == [exists |-> FALSE, source |-> "", has_vectors |-> FALSE, vectors |-> <<>>]

\* history of the load of the current searcher: found is what line 79..88
\* found in the cache: "hit", "absent", "source" or "count" (the source or
\* the vector count does not match), "unreadable" (the read raised), or
\* "none" when the embeddings were not loaded at all
NoSession == [build_failed |-> FALSE, built |-> FALSE, found |-> "none",
              provider_calls |-> 0]

\* f"{repo['full_name']} {desc} {topics}", as the words of the text
FullText(repo) == <<repo.full_name>> \o repo.description \o repo.topics

NumBatches(total) == (total + batch_size - 1) \div batch_size

RECURSIVE BuildLoop(_, _, _, _, _)
\* the loop of _build_google_embeddings from batch start i on; outcomes[j]
\* is what the provider does on the j-th batch, sent the batches the
\* provider was called with so far
BuildLoop(descs, i, vectors, sent, outcomes) ==
    IF i >= Len(descs)
    THEN [failed |-> FALSE, vectors |-> vectors, sent |-> sent]
    ELSE LET j     == (i \div batch_size) + 1
             last_ == IF i + batch_size < Len(descs) THEN i + batch_size ELSE Len(descs)
             batch == SubSeq(descs, i + 1, last_)
         IN  IF outcomes[j] = "fail"
             THEN [failed |-> TRUE, vectors |-> <<>>, sent |-> Append(sent, batch)]
             ELSE BuildLoop(descs, i + batch_size,
                            vectors \o embed_content(batch, outcomes[j]),
                            Append(sent, batch), outcomes)

RECURSIVE BuildLoopContinues(_, _, _, _, _, _)
\* the loop going on to the next batch after a failing one
BuildLoopContinues(descs, i, vectors, sent, outcomes, failed) ==
    IF i >= Len(descs)
    THEN [failed |-> failed, vectors |-> IF failed THEN <<>> ELSE vectors,
          sent |-> sent]
    ELSE LET j     == (i \div batch_size) + 1
             last_ == IF i + batch_size < Len(descs) THEN i + batch_size ELSE Len(descs)
             batch == SubSeq(descs, i + 1, last_)
         IN  IF outcomes[j] = "fail"
             THEN BuildLoopContinues(descs, i + batch_size, vectors,
                                     Append(sent, batch), outcomes, TRUE)
             ELSE BuildLoopContinues(descs, i + batch_size,
                                     vectors \o embed_content(batch, outcomes[j]),
                                     Append(sent, batch), outcomes, failed)

\* _build_google_embeddings logging the failure of a batch and going on
\* with the next batch, None at the end
_build_continues_after_failure(descs, outcomes) ==
    LET r == BuildLoopContinues(descs, 0, <<>>, <<>>, outcomes, FALSE)
    IN  [embeddings |-> IF r.failed THEN NoEmbeddings
                        ELSE [present |-> TRUE, vectors |-> r.vectors],
         failed |-> r.failed,
         calls  |-> Len(r.sent),
         sent   |-> r.sent]

\* _build_google_embeddings returning the vectors gathered so far when a
\* batch fails, instead of None
_build_keeps_partial(descs, outcomes) ==
    LET r == BuildLoop(descs, 0, <<>>, <<>>, outcomes)
    IN  [embeddings |-> [present |-> TRUE, vectors |-> r.vectors],
         failed |-> r.failed,
         calls  |-> Len(r.sent),
         sent   |-> r.sent]

\* StarSearcher._build_google_embeddings: None after a failing batch
_build_google_embeddings(descs, outcomes) ==
    LET r == BuildLoop(descs, 0, <<>>, <<>>, outcomes)
    IN  [embeddings |-> IF r.failed THEN NoEmbeddings
                        ELSE [present |-> TRUE, vectors |-> r.vectors],
         failed |-> r.failed,
         calls  |-> Len(r.sent),
         sent   |-> r.sent]

\* CacheValid without the comparison of the vector count
CacheValidSourceOnly(cache, descs) ==
    /\ cache.exists
    /\ cache.source = "google"
    /\ cache.has_vectors

\* the test of line 84; a vectors entry of None makes len() raise, which
\* line 87 catches
CacheValid(cache, descs) ==
    /\ cache.exists
    /\ cache.source = "google"
    /\ cache.has_vectors
    /\ Len(cache.vectors) = Len(descs)

\* _load_or_build_embeddings without the write of the cache after a build
_load_or_build_without_save(cache, descs, outcomes) ==
    IF CacheValid(cache, descs)
    THEN [embeddings |-> [present |-> TRUE, vectors |-> cache.vectors],
          cache      |-> cache,
          session    |-> [build_failed |-> FALSE, built |-> FALSE,
                          found |-> "hit", provider_calls |-> 0]]
    ELSE LET b == _build_google_embeddings(descs, outcomes)
         IN  [embeddings |-> b.embeddings,
              cache      |-> cache,
              session    |-> [build_failed |-> b.failed, built |-> ~b.failed,
                              found |-> IF ~cache.exists THEN "absent"
                                        ELSE IF cache.source # "google" THEN "source"
                                        ELSE IF ~cache.has_vectors THEN "unreadable"
                                        ELSE "count",
                              provider_calls |-> b.calls]]

\* StarSearcher._load_or_build_embeddings
_load_or_build_embeddings(cache, descs, outcomes) ==
    IF CacheValid(cache, descs)
    THEN [embeddings |-> [present |-> TRUE, vectors |-> cache.vectors],
          cache      |-> cache,
          session    |-> [build_failed |-> FALSE, built |-> FALSE,
                          found |-> "hit", provider_calls |-> 0]]
    ELSE LET b == _build_google_embeddings(descs, outcomes)
         IN  [embeddings |-> b.embeddings,
              cache      |-> IF b.embeddings.present
                             THEN [exists |-> TRUE, source |-> "google",
                                   has_vectors |-> TRUE,
                                   vectors |-> b.embeddings.vectors]
                             ELSE cache,
              session    |-> [build_failed |-> b.failed, built |-> ~b.failed,
                              found |-> IF ~cache.exists THEN "absent"
                                        ELSE IF cache.source # "google" THEN "source"
                                        ELSE IF ~cache.has_vectors THEN "unreadable"
                                        ELSE "count",
                              provider_calls |-> b.calls]]

\* load_data adding the stored repositories to the ones held instead of
\* replacing them
load_data_extends(self, file, cache, outcomes) ==
    IF ~file.exists
    THEN [self |-> self, cache |-> cache, session |-> NoSession]
    ELSE LET all   == self.repos \o file.repos
             descs == [i \in 1..Len(all) |-> FullText(all[i])]
             index == IF descs # <<>>
                      THEN BM25Okapi([i \in 1..Len(descs) |-> LowerText(descs[i])])
                      ELSE self.bm25
             loaded == [self EXCEPT !.repos = all,
                                    !.descriptions = descs,
                                    !.bm25 = index]
         IN  IF self.embedding_source = "google" /\ descs # <<>>
             THEN LET e == _load_or_build_embeddings(cache, descs, outcomes)
                  IN  [self    |-> [loaded EXCEPT !.embeddings = e.embeddings],
                       cache   |-> e.cache,
                       session |-> e.session]
             ELSE [self |-> loaded, cache |-> cache, session |-> NoSession]

\* StarSearcher.load_data on the searcher self
load_data(self, file, cache, outcomes) ==
    IF ~file.exists
    THEN [self |-> self, cache |-> cache, session |-> NoSession]
    ELSE LET descs == [i \in 1..Len(file.repos) |-> FullText(file.repos[i])]
             index == IF descs # <<>>
                      THEN BM25Okapi([i \in 1..Len(descs) |-> LowerText(descs[i])])
                      ELSE self.bm25
             loaded == [self EXCEPT !.repos = file.repos,
                                    !.descriptions = descs,
                                    !.bm25 = index]
         IN  IF self.embedding_source = "google" /\ descs # <<>>
             THEN LET e == _load_or_build_embeddings(cache, descs, outcomes)
                  IN  [self    |-> [loaded EXCEPT !.embeddings = e.embeddings],
                       cache   |-> e.cache,
                       session |-> e.session]
             ELSE [self |-> loaded, cache |-> cache, session |-> NoSession]

\* StarSearcher.__init__ up to the load; api_key: GEMINI_API_KEY is set and
\* the client could be created
NewFields(api_key) ==
    [repos |-> <<>>, descriptions |-> <<>>, embeddings |-> NoEmbeddings,
     embedding_source |-> IF api_key THEN "google" ELSE "keyword",
     google_client |-> api_key, bm25 |-> NoBm25]

\* StarSearcher(username)
StarSearcher(api_key, file, cache, outcomes) ==
    load_data(NewFields(api_key), file, cache, outcomes)

----------------------------------------------------------------------------
(* StarSearcher: the three search strategies *)

\* term in text, for a term without white space: it lies within one word
IsSubstring(term, word) ==
    \E off \in 0..(Len(word) - Len(term)) :
        \A i \in 1..Len(term) : word[off + i] = term[i]

TermInText(term, text) == \E w \in 1..Len(text) : IsSubstring(term, text[w])

\* the indices i of 0..n-1 with keep[i], in increasing order (the list a
\* loop over range(n) appends to)
Select(keep, n) ==
    LET S == {i \in 0..(n - 1) : keep[i]}
    IN  [j \in 1..Cardinality(S) |->
            CHOOSE i \in S : Cardinality({x \in S : x < i}) = j - 1]

\* simple_keyword_search matching whole words instead of substrings
simple_keyword_search_whole_words(self, query, limit) ==
    LET n           == Len(self.repos)
        query_terms == LowerText(query)
        score       == Eager([i \in 0..(n - 1) |->
                          Cardinality({t \in 1..Len(query_terms) :
                              query_terms[t] \in
                                  Range(LowerText(FullText(self.repos[i + 1])))})], n)
        results     == Select([i \in 0..(n - 1) |-> score[i] > 0], n)
        m           == Len(results)
        keys        == Eager([j \in 0..(m - 1) |-> Rat(score[results[j + 1]])], m)
        order       == SortDesc(keys, m)
        sorted      == [j \in 1..m |-> self.repos[results[order[j - 1] + 1] + 1]]
    IN  [result |-> Truncate(sorted, limit), raised |-> FALSE, path |-> "keyword",
         fused |-> <<>>]

\* StarSearcher.simple_keyword_search
simple_keyword_search(self, query, limit) ==
    LET n           == Len(self.repos)
        query_terms == LowerText(query)
        score       == Eager([i \in 0..(n - 1) |->
                          Cardinality({t \in 1..Len(query_terms) :
                              TermInText(query_terms[t],
                                         LowerText(FullText(self.repos[i + 1])))})], n)
        results     == Select([i \in 0..(n - 1) |-> score[i] > 0], n)
        m           == Len(results)
        keys        == Eager([j \in 0..(m - 1) |-> Rat(score[results[j + 1]])], m)
        order       == SortDesc(keys, m)
        sorted      == [j \in 1..m |-> self.repos[results[order[j - 1] + 1] + 1]]
    IN  [result |-> Truncate(sorted, limit), raised |-> FALSE, path |-> "keyword",
         fused |-> <<>>]

\* np.argsort(scores)[::-1]: the ascending stable order of a short array,
\* reversed (a function on 0..n-1)
ArgsortReversed(scores, n) ==
    [pos \in 0..(n - 1) |->
        CHOOSE p \in 0..(n - 1) :
            Cardinality({r \in 0..(n - 1) : scores[r] < scores[p]})
            + Cardinality({r \in 0..(n - 1) : r < p /\ scores[r] = scores[p]})
            = n - 1 - pos]

\* BM25Okapi.get_top_n
get_top_n(index, query, documents, n) ==
    IF corpus_size(index.corpus) # Len(documents)
    THEN [result |-> <<>>, raised |-> TRUE]
    ELSE LET scores == get_scores(index.corpus, query)
             top    == ArgsortReversed(scores, Len(documents))
             all    == [j \in 1..Len(documents) |-> documents[top[j - 1] + 1]]
         IN  [result |-> Truncate(all, n), raised |-> FALSE]

\* StarSearcher.bm25_search
bm25_search(self, query, limit) ==
    IF ~self.bm25.built
    THEN simple_keyword_search(self, query, limit)
    ELSE LET r == get_top_n(self.bm25, LowerText(query), self.repos, limit)
         IN  [result |-> r.result, raised |-> r.raised, path |-> "bm25",
              fused |-> <<>>]

\* vector_ranks.get(i, default): vector_ranks maps the index of every row
\* of embeddings to its position in the similarity order
vector_ranks_get(vector_scores, m, i, default) ==
    IF i < m THEN SortedPos(vector_scores, m, i) ELSE default

\* bm25_ranks.get(i, default).  Line 168 builds the pairs (idx, score) and
\* line 170 unpacks each as (score, idx): the dictionary is keyed by the
\* BM25 score and holds, for each score, the last position with that score.
\* The lookup key i finds a score that equals i as a number.
bm25_ranks_get(bm25_scores, n, i, default) ==
    LET keys == Eager([x \in 0..(n - 1) |-> Rat(bm25_scores[x])], n)
        hits == {pos \in 0..(n - 1) :
                    \E p \in 0..(n - 1) :
                        /\ bm25_scores[p] = i * 1000
                        /\ SortedPos(keys, n, p) = pos}
    IN  IF hits = {} THEN default
        ELSE CHOOSE pos \in hits : \A other \in hits : other <= pos

\* rrf_score = 1.0 / (k + v_rank) + 1.0 / (k + b_rank)
rrf_score(v_rank, b_rank) == RatAdd(<<1, k + v_rank>>, <<1, k + b_rank>>)

\* the except branch re-raising instead of falling back to BM25
vector_part_reraises(self, query, limit) ==
    [result |-> <<>>, raised |-> TRUE, path |-> "hybrid_to_bm25", fused |-> <<>>]

\* the except branch of hybrid_search (lines 161..163)
vector_part_failed(self, query, limit) ==
    [bm25_search(self, query, limit) EXCEPT !.path = "hybrid_to_bm25"]

\* StarSearcher.hybrid_search; provider_ok: the embedding of the query
\* succeeds
hybrid_search(self, query, limit, provider_ok) ==
    IF ~provider_ok
    THEN vector_part_failed(self, query, limit)
    ELSE
    LET n             == Len(self.repos)
        m             == Len(self.embeddings.vectors)
        nb            == corpus_size(self.bm25.corpus)
        query_vec     == EmbedQuery(query)
        vector_scores == Eager([idx \in 0..(m - 1) |->
                            CosineScore(query_vec, self.embeddings.vectors[idx + 1])], m)
        bm25_scores   == get_scores(self.bm25.corpus, LowerText(query))
        cands         == Select([i \in 0..(n - 1) |-> bm25_scores[i] > 0 \/ i < m], n)
        c             == Len(cands)
        keys          == Eager([j \in 0..(c - 1) |->
                            rrf_score(vector_ranks_get(vector_scores, m, cands[j + 1], n),
                                      bm25_ranks_get(bm25_scores, nb, cands[j + 1], n))], c)
        order         == SortDesc(keys, c)
        fused_scores  == [j \in 1..c |-> cands[order[j - 1] + 1]]
    IN  IF n > nb
        THEN [result |-> <<>>, raised |-> TRUE, path |-> "hybrid", fused |-> <<>>]
        ELSE [result |-> Truncate([j \in 1..c |-> self.repos[fused_scores[j] + 1]], limit),
              raised |-> FALSE, path |-> "hybrid", fused |-> fused_scores]

\* search choosing the hybrid strategy by the provider recorded at
\* construction instead of the vectors held
search_by_source(self, query, limit, provider_ok) ==
    IF self.embedding_source = "google" /\ self.bm25.built
    THEN hybrid_search(self, query, limit, provider_ok)
    ELSE IF self.bm25.built
    THEN bm25_search(self, query, limit)
    ELSE simple_keyword_search(self, query, limit)

\* search without the last fallback: the BM25 index is used whether it
\* exists or not
search_without_fallback(self, query, limit, provider_ok) ==
    IF self.embeddings.present /\ self.bm25.built
    THEN hybrid_search(self, query, limit, provider_ok)
    ELSE IF self.bm25.built
    THEN bm25_search(self, query, limit)
    ELSE [result |-> <<>>, raised |-> TRUE, path |-> "bm25", fused |-> <<>>]

\* StarSearcher.search
search(self, query, limit, provider_ok) ==
    IF self.embeddings.present /\ self.bm25.built
    THEN hybrid_search(self, query, limit, provider_ok)
    ELSE IF self.bm25.built
    THEN bm25_search(self, query, limit)
    ELSE simple_keyword_search(self, query, limit)

\* a search giving up the vectors when the embedding of the query failed
search_forgets_vectors(self, query, limit, provider_ok) ==
    IF self.embeddings.present /\ self.bm25.built /\ ~provider_ok
    THEN [self EXCEPT !.embeddings = NoEmbeddings, !.embedding_source = "keyword"]
    ELSE self

\* the searcher after search(query, limit): search, hybrid_search,
\* bm25_search and simple_keyword_search (lines 125..205) assign no
\* attribute of self, the except branch of lines 161..163 included
searcher_after_search(self, query, limit, provider_ok) == self

----------------------------------------------------------------------------
(* github_client.raw_fetch_user_stars and the GitHub API it pages through *)

\* What the API does on the request of a page: a full page of per_page
\* repositories, a page of per_page - 1, of one or of no repository, a
\* status other than 200, or requests.get raising.
PageKinds == {"full", "most", "one", "empty", "status", "throws"}

PageLen(kind) ==
    CASE kind = "full" -> per_page
      [] kind = "most" -> per_page - 1
      [] kind = "one" -> 1
      [] OTHER -> 0

\* stargazers_count of the repositories the API lists, repeated along the
\* list; raw_fetch_user_stars reads a repository without the key as one
\* with 0 (repo.get(..., 0))
StarPatterns == {<<9, 10, 11>>, <<10, 0, 9>>, <<11, 10, 10>>, <<0, 9, 9>>}

\* what the API does on the request of the page: api lists its answers to
\* the first requests and it goes on with the last of them (a user with
\* more stars than the client ever fetches, or an API that stays down);
\* the empty api answers the empty list
PageKind(api, page) ==
    IF api = <<>> THEN "empty"
    ELSE IF page > Len(api) THEN api[Len(api)] ELSE api[page]

\* response.json() of the page: the repositories are numbered along the
\* pages
PageData(api, pattern, page) ==
    [i \in 1..PageLen(PageKind(api, page)) |->
        LET id == (page - 1) * per_page + i
        IN  [full_name |-> id,
             stargazers_count |-> pattern[(id % Len(pattern)) + 1]]]

\* the test of line 46 with continue taken for the repositories on the
\* threshold as well
KeepAboveThreshold(repo) == repo.stargazers_count > REPO_STAR_THRESHOLD

\* line 46: the repositories the loop does not skip
Keep(repo) == ~(repo.stargazers_count < REPO_STAR_THRESHOLD)

\* lines 49..56: the dictionary appended for a repository
Stored(repo) == [full_name |-> repo.full_name, stars |-> repo.stargazers_count]

\* the for loop of lines 44..56: all_repos with the dictionaries of the
\* repositories of data that are not skipped, in the order of data
AppendKept(all_repos, data) ==
    LET kept == SelectSeq(data, Keep)
    IN  all_repos \o [i \in 1..Len(kept) |-> Stored(kept[i])]

\* a failed request dropping what the earlier pages gave
RequestFailedReturnsEmpty(all_repos, requested) ==
    [result |-> <<>>, raised |-> FALSE, requested |-> requested]

\* lines 36..38 and 66..68: a status other than 200, or an exception,
\* ends the loop, and line 70 returns all_repos
RequestFailed(all_repos, requested) ==
    [result |-> all_repos, raised |-> FALSE, requested |-> requested]

\* the loop going on after a page of fewer than per_page repositories
LastPageByLimitOnly(data, page) == page + 1 > page_limit

\* lines 59..65: the page was the last one to request
LastPage(data, page) == Len(data) < per_page \/ page + 1 > page_limit

\* lines 36..41 and 59..68: the loop does not go on after the request of
\* the page
Ends(api, pattern, page) ==
    LET kind == PageKind(api, page)
        data == PageData(api, pattern, page)
    IN  kind \in {"status", "throws"} \/ data = <<>> \/ LastPage(data, page)

\* the data of the requests 1..n in the order of the API: the places of n
\* pages without the places the pages leave empty
PagesData(api, pattern, n) ==
    LET PageOf(id) == ((id - 1) \div per_page) + 1
        Listed(repo) ==
            ((repo.full_name - 1) % per_page) + 1
                <= PageLen(PageKind(api, PageOf(repo.full_name)))
        places == [id \in 1..(n * per_page) |->
                     [full_name |-> id,
                      stargazers_count |-> pattern[(id % Len(pattern)) + 1]]]
    IN  SelectSeq(places, Listed)

\* raw_fetch_user_stars(username, token): the while loop of lines 30..69
\* requests the pages from 1 up to the first one it does not go on after;
\* all_repos holds what the for loop kept of the pages before; requested:
\* the pages requested
raw_fetch_user_stars(api, pattern) ==
    LET page == CHOOSE p \in 1..page_limit :
                    /\ Ends(api, pattern, p)
                    /\ \A q \in 1..(p - 1) : ~Ends(api, pattern, q)
        reqs == [p \in 1..page |-> p]
        all_repos == AppendKept(<<>>, PagesData(api, pattern, page - 1))
    IN  IF PageKind(api, page) \in {"status", "throws"}
        THEN RequestFailed(all_repos, reqs)
        ELSE [result |-> AppendKept(all_repos, PageData(api, pattern, page)),
              raised |-> FALSE, requested |-> reqs]

\* fetch_stars.py line 50: the repositories the loop does not skip
KeepLimit(repo) == ~(repo.stargazers_count < STAR_LIMIT)

\* fetch_stars.fetch_user_stars(username, token): the body of while True
\* (lines 26..66) requests the page, returns [] when requests.get raises
\* (lines 32..34), breaks on a status other than 200 and on empty data,
\* appends the repositories it does not skip, and then breaks, at line 64
\* or at line 66: page stays 1
fetch_user_stars(api, pattern) ==
    LET kind == PageKind(api, 1)
        data == SelectSeq(PageData(api, pattern, 1), KeepLimit)
    IN  [result |-> IF kind \in {"status", "throws"} THEN <<>>
                    ELSE [i \in 1..Len(data) |-> Stored(data[i])],
         raised |-> FALSE, requested |-> <<1>>]

----------------------------------------------------------------------------
(* server.py: the implementations of the two tools *)

\* The answer of the API to the request of the first page: a list, a
\* status other than 200, or requests.get raising.
FirstPage == {"data", "status", "throws"}

\* raw_fetch_user_stars(username, api_token) for a user whose stars fit in
\* the first page; kept: what the loop keeps of the page
fetched_stars(first, kept) ==
    IF first = "data" THEN kept ELSE RequestFailed(<<>>, <<1>>).result

\* _fetch_stars_impl constructing the searcher before it writes the file
_fetch_stars_impl_constructs_first(current, file, cache, first, kept, api_key, outcomes, open_ok) ==
    LET stars == fetched_stars(first, kept)
        r     == StarSearcher(api_key, file, cache, outcomes)
    IN  [file |-> [exists |-> TRUE, repos |-> stars], searcher |-> r,
         constructed |-> TRUE, stars |-> stars, message |-> "fetched",
         count |-> Len(stars),
         status |-> IF r.self.embedding_source = "google"
                    THEN " (Embedded with Gemini)" ELSE ""]

\* server._fetch_stars_impl(username, token), lines 36..55; current: the
\* searcher constructed last, with the cache and the history of its load;
\* open_ok: open(filename, "w") succeeds (line 43), else it raises and the
\* except branch of lines 53..55 returns the error message
_fetch_stars_impl(current, file, cache, first, kept, api_key, outcomes, open_ok) ==
    LET stars   == fetched_stars(first, kept)
        written == [exists |-> TRUE, repos |-> stars]
        r       == StarSearcher(api_key, written, cache, outcomes)
    IN  IF ~open_ok
        THEN [file |-> file, searcher |-> current, constructed |-> FALSE,
              stars |-> stars, message |-> "error", count |-> 0, status |-> ""]
        ELSE [file |-> written, searcher |-> r, constructed |-> TRUE,
              stars |-> stars, message |-> "fetched", count |-> Len(stars),
              status |-> IF r.self.embedding_source = "google"
                         THEN " (Embedded with Gemini)" ELSE ""]

\* What raises inside the try of _search_stars_impl: nothing, the
\* constructor (the stored file is not readable as JSON), or search.
Failures == {"none", "constructor", "search"}

\* _search_stars_impl without the check of lines 69..70
_search_stars_impl_unchecked(current, file, cache, query, api_key, outcomes, provider_ok, failure) ==
    LET r   == StarSearcher(api_key, file, cache, outcomes)
        top == search(r.self, query, search_limit, provider_ok)
    IN  [searcher |-> r, constructed |-> TRUE, searched |-> TRUE,
         result |-> top.result, path |-> top.path, raised |-> FALSE,
         message |-> IF top.raised THEN "error"
                     ELSE IF top.result = <<>> THEN "no_matches" ELSE "results"]

\* server._search_stars_impl(username, query), lines 66..96
_search_stars_impl(current, file, cache, query, api_key, outcomes, provider_ok, failure) ==
    LET r   == StarSearcher(api_key, file, cache, outcomes)
        top == search(r.self, query, search_limit, provider_ok)
    IN  IF ~file.exists
        THEN [searcher |-> current, constructed |-> FALSE, searched |-> FALSE,
              result |-> <<>>, path |-> "", raised |-> FALSE,
              message |-> "no_data"]
        ELSE IF failure = "constructor"
        THEN [searcher |-> current, constructed |-> FALSE, searched |-> FALSE,
              result |-> <<>>, path |-> "", raised |-> FALSE,
              message |-> "error"]
        ELSE IF failure = "search" \/ top.raised
        THEN [searcher |-> r, constructed |-> TRUE, searched |-> TRUE,
              result |-> <<>>, path |-> top.path, raised |-> FALSE,
              message |-> "error"]
        ELSE [searcher |-> r, constructed |-> TRUE, searched |-> TRUE,
              result |-> top.result, path |-> top.path, raised |-> FALSE,
              message |-> IF top.result = <<>> THEN "no_matches" ELSE "results"]

----------------------------------------------------------------------------
(* agent_playground.py: the registry of chat sessions and chat_with_agent *)

\* a dictionary without keys
EmptyDict == [key \in {} |-> 0]

\* d[key] = value
DictSet(d, key, value) ==
    [x \in (DOMAIN d) \cup {key} |-> IF x = key THEN value ELSE d[x]]

\* d.pop(key, None)
DictPop(d, key) == [x \in (DOMAIN d) \ {key} |-> d[x]]

\* the session id of chat_with_agent (line 142) and the default one of
\* get_chat_session (line 99)
SessionIds == {"gradio_user", "default"}

\* What an attempt of chat_with_agent meets.  outcome: the answer has a
\* text, or has none, or an exception is raised whose message names a
\* closed client, a quota or rate limit (429), an expired or invalid
\* session (400), or something else; at: the call that raises it, the
\* construction of the client, the creation of the chat, or send_message.
\* The two first calls are made only when the session id has no chat; an
\* exception they would raise is then raised by send_message.
Outcomes_send == {"text", "no_text", "closed", "quota", "expired", "other"}

Attempts ==
    {[at |-> "send", outcome |-> o] : o \in Outcomes_send}
        \cup {[at |-> a, outcome |-> o] :
                 a \in {"client", "create"},
                 o \in {"closed", "quota", "expired", "other"}}

NoAttempt == [at |-> "", outcome |-> ""]

\* the messages of the user: empty, white space, a text, a text after
\* white space
Whitespace == {" ", "\n", "\t"}

Messages == {<<>>, <<" ">>, <<" ", "\n">>, <<"h", "i">>, <<"\t", "h", "i">>}

\* not message or not message.strip() (line 139)
Blank(message) == \A i \in 1..Len(message) : message[i] \in Whitespace

\* get_chat_session(session_id), lines 99..131; reg: the two dictionaries
\* and the number of clients created, the n-th client and the chat it
\* creates being identified by n; creation: "ok", or the call that raises
\* when a client and a chat have to be created
get_chat_session(reg, session_id, creation) ==
    IF session_id \in DOMAIN reg.chat_sessions
    THEN [reg |-> reg, chat |-> reg.chat_sessions[session_id], raised |-> FALSE]
    ELSE IF creation = "client"
    THEN [reg |-> reg, chat |-> 0, raised |-> TRUE]
    ELSE LET client == reg.clients_created + 1
             made   == [reg EXCEPT
                           !.gemini_clients = DictSet(@, session_id, client),
                           !.clients_created = client]
         IN  IF creation = "create"
             THEN [reg |-> made, chat |-> 0, raised |-> TRUE]
             ELSE [reg |-> [made EXCEPT
                               !.chat_sessions = DictSet(@, session_id, client)],
                   chat |-> client, raised |-> FALSE]

\* the reset leaving the client of the session id in gemini_clients
reset_keeps_client(reg, session_id) ==
    [reg EXCEPT !.chat_sessions = DictPop(@, session_id)]

\* lines 174..175 and 195..196: the chat and the client of the session id
\* are dropped
reset(reg, session_id) ==
    [reg EXCEPT !.chat_sessions = DictPop(@, session_id),
                !.gemini_clients = DictPop(@, session_id)]

\* one turn of the loop of chat_with_agent (lines 145..199) with left
\* retries; sent: send_message was called; running: the loop goes on
\* (continue, and retries > 0 at line 145)
chat_attempt(reg, left, attempt) ==
    LET g      == get_chat_session(reg, "gradio_user",
                                   IF attempt.at = "send" THEN "ok" ELSE attempt.at)
        sent   == ~g.raised
        ended(reg_, reply) ==
            [reg |-> reg_, left |-> left, running |-> FALSE, reply |-> reply,
             sent |-> sent, chat |-> g.chat]
        again(reg_) ==
            [reg |-> reg_, left |-> left - 1, running |-> left - 1 > 0,
             reply |-> IF left - 1 > 0 THEN "" ELSE "max_retries",
             sent |-> sent, chat |-> g.chat]
    IN  CASE attempt.outcome = "text" -> ended(g.reg, "text")
          [] attempt.outcome = "no_text" -> ended(g.reg, "completed")
          [] attempt.outcome = "closed" -> again(reset(g.reg, "gradio_user"))
          [] attempt.outcome = "quota" ->
                IF left > 1 THEN again(g.reg) ELSE ended(g.reg, "quota_exceeded")
          [] attempt.outcome = "expired" ->
                ended(reset(g.reg, "gradio_user"), "session_reset")
          [] OTHER -> ended(g.reg, "unexpected_error")

----------------------------------------------------------------------------
(* The state machine *)

\* the searcher held in the variables
Self ==
    [repos |-> repos, descriptions |-> descriptions, embeddings |-> embeddings,
     embedding_source |-> embedding_source, google_client |-> google_client,
     bm25 |-> bm25]

\* no build of the vectors was observed
NoBuild == [descs |-> <<>>, outcomes |-> <<>>, sent |-> <<>>,
            present |-> FALSE, vectors |-> <<>>, failed |-> FALSE]

\* no call of raw_fetch_user_stars was observed
NoFetch == [api |-> <<>>, pattern |-> <<>>, requested |-> <<>>]

\* no call of chat_with_agent or get_chat_session was observed
NoChat == [session_id |-> "", message |-> <<>>, running |-> FALSE, left |-> 0,
           sends |-> 0, reply |-> "", used |-> <<>>, attempt |-> NoAttempt,
           seen |-> {}]

\* no call of a tool of server.py was observed
NoTool == [message |-> "", count |-> 0, constructed |-> FALSE,
           searched |-> FALSE, token |-> FALSE, first |-> "", failure |-> ""]

NoOp ==
    [op |-> "none", query |-> <<>>, limit |-> 0, result |-> <<>>,
     raised |-> FALSE, path |-> "", fused |-> <<>>, status |-> "",
     provider_ok |-> TRUE, build |-> NoBuild, fetch |-> NoFetch,
     tool |-> NoTool, chat |-> NoChat]

\* no operation is in progress: the tools are synchronous functions
\* (server.py lines 100..121) and a session performs one operation at a
\* time
Idle == last.op = "none"

\* the searcher r.self becomes the current one
Install(r) ==
    /\ repos' = r.self.repos
    /\ descriptions' = r.self.descriptions
    /\ bm25' = r.self.bm25
    /\ embeddings' = r.self.embeddings
    /\ embedding_source' = r.self.embedding_source
    /\ google_client' = r.self.google_client
    /\ cache_file' = r.cache
    /\ session' = r.session
    /\ UNCHANGED <<chat_sessions, gemini_clients, clients_created>>

Init ==
    \E api_key \in BOOLEAN :
        LET r == StarSearcher(api_key, NoFile, NoCache, <<>>)
        IN  /\ stars_file = NoFile
            /\ cache_file = r.cache
            /\ repos = r.self.repos
            /\ descriptions = r.self.descriptions
            /\ bm25 = r.self.bm25
            /\ embeddings = r.self.embeddings
            /\ embedding_source = r.self.embedding_source
            /\ google_client = r.self.google_client
            /\ session = r.session
            /\ chat_sessions = EmptyDict
            /\ gemini_clients = EmptyDict
            /\ clients_created = 0
            /\ last = NoOp

\* a test or a tool constructs StarSearcher(username) on the stored data
Construct(api_key, outcomes) ==
    /\ Idle
    /\ Install(StarSearcher(api_key, stars_file, cache_file, outcomes))
    /\ last' = [NoOp EXCEPT !.op = "construct"]
    /\ UNCHANGED stars_file

\* the searcher constructed last, with the cache and the history of its
\* load
Current == [self |-> Self, cache |-> cache_file, session |-> session]

\* server._fetch_stars_impl(username, token); token: a token is passed or
\* GITHUB_TOKEN is set (line 36)
FetchStarsImpl(token, first, kept, api_key, outcomes, open_ok) ==
    /\ Idle
    /\ \E r \in {_fetch_stars_impl(Current, stars_file, cache_file, first, kept,
                                  api_key, outcomes, open_ok)} :
          /\ stars_file' = r.file
          /\ Install(r.searcher)
          /\ last' = [NoOp EXCEPT !.op = "fetch", !.result = r.stars,
                                  !.status = r.status,
                                  !.tool = [NoTool EXCEPT
                                               !.message = r.message,
                                               !.count = r.count,
                                               !.constructed = r.constructed,
                                               !.token = token,
                                               !.first = first]]

\* server._fetch_stars_impl with a token, the API answering and the file
\* written: stars is what raw_fetch_user_stars returned
FetchStars(stars, api_key, outcomes) ==
    FetchStarsImpl(TRUE, "data", stars, api_key, outcomes, TRUE)

\* the operation in progress returns its outcome to its caller
Return ==
    /\ ~Idle
    /\ ~last.chat.running
    /\ last' = NoOp
    /\ UNCHANGED <<stars_file, cache_file, repos, descriptions, bm25,
                   embeddings, embedding_source, google_client, session, chat_sessions,
                   gemini_clients, clients_created>>

\* the strategy of line 130 calls the provider
CallsProvider == embeddings.present /\ bm25.built

\* searcher.search(query, limit); provider_ok is the outcome of the
\* embedding of the query, when the strategy embeds it
Search(query, limit, provider_ok) ==
    LET r     == search(Self, query, limit, provider_ok)
        after == searcher_after_search(Self, query, limit, provider_ok)
    IN  /\ Idle
        /\ last' = [NoOp EXCEPT !.op = "search", !.query = query, !.limit = limit,
                                !.result = r.result, !.raised = r.raised,
                                !.path = r.path, !.fused = r.fused,
                                !.provider_ok = provider_ok]
        /\ repos' = after.repos
        /\ descriptions' = after.descriptions
        /\ bm25' = after.bm25
        /\ embeddings' = after.embeddings
        /\ embedding_source' = after.embedding_source
        /\ google_client' = after.google_client
        /\ UNCHANGED <<stars_file, cache_file, session, chat_sessions,
                   gemini_clients, clients_created>>

\* the stored stars are deleted (os.remove(json_path))
RemoveStarsFile ==
    /\ Idle
    /\ stars_file.exists
    /\ stars_file' = NoFile
    /\ last' = [NoOp EXCEPT !.op = "remove"]
    /\ UNCHANGED <<cache_file, repos, descriptions, bm25, embeddings,
                   embedding_source, google_client, session, chat_sessions,
                   gemini_clients, clients_created>>

\* search_tool.StarSearcher writes the cache of the same stars file: the
\* vectors of its local model, or source "google" with vectors None after
\* a failed build
OtherToolWritesCache(local) ==
    /\ Idle
    /\ stars_file.exists
    /\ cache_file' =
          IF local
          THEN [exists |-> TRUE, source |-> "local", has_vectors |-> TRUE,
                vectors |-> [i \in 1..Len(stars_file.repos) |-> <<1, 1>>]]
          ELSE [exists |-> TRUE, source |-> "google", has_vectors |-> FALSE,
                vectors |-> <<>>]
    /\ last' = [NoOp EXCEPT !.op = "other_tool"]
    /\ UNCHANGED <<stars_file, repos, descriptions, bm25, embeddings,
                   embedding_source, google_client, session, chat_sessions,
                   gemini_clients, clients_created>>

Outcomes(total) == [1..NumBatches(total) -> ProviderOutcomes]

Next ==
    \/ \E api_key \in BOOLEAN :
         \E outcomes \in Outcomes(Len(stars_file.repos)) :
            Construct(api_key, outcomes)
    \/ \E stars \in Corpora : \E api_key \in BOOLEAN :
         \E outcomes \in Outcomes(Len(stars)) :
            FetchStars(stars, api_key, outcomes)
    \/ \E query \in Queries : \E limit \in Limits :
         \E provider_ok \in (IF CallsProvider THEN BOOLEAN ELSE {TRUE}) :
            Search(query, limit, provider_ok)
    \/ RemoveStarsFile
    \/ \E local \in BOOLEAN : OtherToolWritesCache(local)
    \/ Return

Spec == Init /\ [][Next]_vars

----------------------------------------------------------------------------
(* The searcher's methods called one by one, as the tests call them *)

\* what a method returned becomes the outcome of the operation in progress
Returned(op, query, limit, r) ==
    /\ last' = [NoOp EXCEPT !.op = op, !.query = query, !.limit = limit,
                            !.result = r.result, !.raised = r.raised,
                            !.path = r.path, !.fused = r.fused]
    /\ UNCHANGED <<stars_file, cache_file, repos, descriptions, bm25,
                   embeddings, embedding_source, google_client, session, chat_sessions,
                   gemini_clients, clients_created>>

\* searcher.bm25_search(query, limit)
Bm25Search(query, limit) ==
    /\ Idle
    /\ Returned("bm25_search", query, limit, bm25_search(Self, query, limit))

\* searcher.simple_keyword_search(query, limit)
KeywordSearch(query, limit) ==
    /\ Idle
    /\ Returned("simple_keyword_search", query, limit,
                simple_keyword_search(Self, query, limit))

NextMethods ==
    \/ \E api_key \in BOOLEAN :
         \E outcomes \in Outcomes(Len(stars_file.repos)) :
            Construct(api_key, outcomes)
    \/ \E stars \in Corpora : \E api_key \in BOOLEAN :
         \E outcomes \in Outcomes(Len(stars)) :
            FetchStars(stars, api_key, outcomes)
    \/ \E query \in Queries : \E limit \in Limits : Bm25Search(query, limit)
    \/ \E query \in Queries : \E limit \in Limits : KeywordSearch(query, limit)
    \/ RemoveStarsFile
    \/ Return

SpecMethods == Init /\ [][NextMethods]_vars

----------------------------------------------------------------------------
(* One searcher kept while its stars file changes: load_data called again *)

\* The stars lists stored while one searcher is kept: the user stars one
\* more repository, or unstars the last ones.
ReloadCorpora ==
    {SubSeq(Starred, 1, n) : n \in 0..(IF MaxDocs < Len(Starred) THEN MaxDocs
                                       ELSE Len(Starred))}

\* the stars are stored (json.dump(stars, f)) and no searcher is constructed
WriteStarsFile(stars) ==
    /\ Idle
    /\ stars_file' = [exists |-> TRUE, repos |-> stars]
    /\ last' = [NoOp EXCEPT !.op = "write"]
    /\ UNCHANGED <<cache_file, repos, descriptions, bm25, embeddings,
                   embedding_source, google_client, session, chat_sessions,
                   gemini_clients, clients_created>>

\* searcher.load_data() on the current searcher
LoadData(outcomes) ==
    /\ Idle
    /\ Install(load_data(Self, stars_file, cache_file, outcomes))
    /\ last' = [NoOp EXCEPT !.op = "load_data"]
    /\ UNCHANGED stars_file

NextReload ==
    \/ \E api_key \in BOOLEAN :
         \E outcomes \in Outcomes(Len(stars_file.repos)) :
            Construct(api_key, outcomes)
    \/ \E stars \in ReloadCorpora : WriteStarsFile(stars)
    \/ RemoveStarsFile
    \/ \E outcomes \in Outcomes(Len(stars_file.repos)) : LoadData(outcomes)
    \/ \E query \in Queries : \E limit \in Limits :
         \E provider_ok \in (IF CallsProvider THEN BOOLEAN ELSE {TRUE}) :
            Search(query, limit, provider_ok)
    \/ Return

SpecReload == Init /\ [][NextReload]_vars

----------------------------------------------------------------------------
(* The build of the vectors of a corpus of several batches *)

Digit == <<"0", "1", "2", "3", "4", "5", "6", "7", "8", "9">>

\* the decimal digits of i, a word
NumWord(i) ==
    <<Digit[((i \div 100) % 10) + 1], Digit[((i \div 10) % 10) + 1],
      Digit[(i % 10) + 1]>>

\* the search texts of n starred repositories, all different: the i-th has
\* one of the names of Starred and the description i
Descriptions(n) ==
    [i \in 1..n |-> <<Starred[((i - 1) % Len(Starred)) + 1].full_name, NumWord(i)>>]

\* corpus sizes around the multiples of batch_size
BuildSizes ==
    {n \in 0..(MaxBatches * batch_size) :
        n % batch_size \in {0, 1, batch_size \div 2, batch_size - 1}}

\* self._build_google_embeddings() on a searcher that has a client and
\* holds n descriptions
BuildEmbeddings(n, outcomes) ==
    LET b == _build_google_embeddings(Descriptions(n), outcomes)
    IN  /\ Idle
        /\ google_client
        /\ last' = [NoOp EXCEPT !.op = "build",
                                !.build = [descs |-> Descriptions(n),
                                           outcomes |-> outcomes,
                                           sent |-> b.sent,
                                           present |-> b.embeddings.present,
                                           vectors |-> b.embeddings.vectors,
                                           failed |-> b.failed]]
        /\ UNCHANGED <<stars_file, cache_file, repos, descriptions, bm25,
                       embeddings, embedding_source, google_client, session, chat_sessions,
                   gemini_clients, clients_created>>

\* corpus sizes of 1 to MaxLoadBatches batches, the last batch of one text
LoadSizes == {(j - 1) * batch_size + 1 : j \in 1..MaxLoadBatches}

\* self._load_or_build_embeddings() on a searcher that has a client and
\* holds n descriptions, with the cache file as it is
LoadOrBuildEmbeddings(n, outcomes) ==
    LET e == _load_or_build_embeddings(cache_file, Descriptions(n), outcomes)
    IN  /\ Idle
        /\ google_client
        /\ cache_file' = e.cache
        /\ last' = [NoOp EXCEPT !.op = "load_or_build",
                                !.build = [descs |-> Descriptions(n),
                                           outcomes |-> outcomes,
                                           sent |-> <<>>,
                                           present |-> e.embeddings.present,
                                           vectors |-> e.embeddings.vectors,
                                           failed |-> e.session.build_failed]]
        /\ UNCHANGED <<stars_file, repos, descriptions, bm25, embeddings,
                       embedding_source, google_client, session, chat_sessions,
                   gemini_clients, clients_created>>

NextBuild ==
    \/ \E n \in BuildSizes : \E outcomes \in Outcomes(n) : BuildEmbeddings(n, outcomes)
    \/ \E n \in LoadSizes : \E outcomes \in Outcomes(n) :
          LoadOrBuildEmbeddings(n, outcomes)
    \/ Return

SpecBuild == Init /\ [][NextBuild]_vars

----------------------------------------------------------------------------
(* The fetch of the stars from the API *)

\* the answers of the API to the requests of pages 1, 2, ...
Apis == UNION {[1..n -> PageKinds] : n \in 0..MaxPages}

\* raw_fetch_user_stars(username, token) against the API api
RawFetch(api, pattern) ==
    LET r == raw_fetch_user_stars(api, pattern)
    IN  /\ Idle
        /\ last' = [NoOp EXCEPT !.op = "raw_fetch", !.result = r.result,
                                !.raised = r.raised,
                                !.fetch = [api |-> api, pattern |-> pattern,
                                           requested |-> r.requested]]
        /\ UNCHANGED <<stars_file, cache_file, repos, descriptions, bm25,
                       embeddings, embedding_source, google_client, session, chat_sessions,
                   gemini_clients, clients_created>>

\* fetch_stars.fetch_user_stars called by main.py (line 28) or by the
\* command line of fetch_stars.py (line 78)
FetchUserStars(api, pattern) ==
    LET r == fetch_user_stars(api, pattern)
    IN  /\ Idle
        /\ last' = [NoOp EXCEPT !.op = "fetch_user_stars", !.result = r.result,
                                !.raised = r.raised,
                                !.fetch = [api |-> api, pattern |-> pattern,
                                           requested |-> r.requested]]
        /\ UNCHANGED <<stars_file, cache_file, repos, descriptions, bm25,
                       embeddings, embedding_source, google_client, session, chat_sessions,
                   gemini_clients, clients_created>>

----------------------------------------------------------------------------
(* The tools of server.py called by a client *)

\* server._search_stars_impl(username, query)
SearchStars(query, api_key, outcomes, provider_ok, failure) ==
    /\ Idle
    /\ \E r \in {_search_stars_impl(Current, stars_file, cache_file, query,
                                   api_key, outcomes, provider_ok, failure)} :
          /\ Install(r.searcher)
          /\ last' = [NoOp EXCEPT !.op = "search_stars", !.query = query,
                                  !.limit = search_limit, !.result = r.result,
                                  !.raised = r.raised, !.path = r.path,
                                  !.provider_ok = provider_ok,
                                  !.tool = [NoTool EXCEPT
                                               !.message = r.message,
                                               !.count = Len(r.result),
                                               !.constructed = r.constructed,
                                               !.searched = r.searched,
                                               !.failure = failure]]
    /\ UNCHANGED stars_file

NextServer ==
    \/ \E token \in BOOLEAN : \E first \in FirstPage : \E kept \in ReloadCorpora :
         \E api_key \in BOOLEAN : \E outcomes \in Outcomes(Len(kept)) :
           \E open_ok \in BOOLEAN :
              FetchStarsImpl(token, first, kept, api_key, outcomes, open_ok)
    \/ \E query \in Queries : \E api_key \in BOOLEAN :
         \E outcomes \in Outcomes(Len(stars_file.repos)) :
           \E provider_ok \in BOOLEAN : \E failure \in Failures :
              SearchStars(query, api_key, outcomes, provider_ok, failure)
    \/ RemoveStarsFile
    \/ Return

SpecServer == Init /\ [][NextServer]_vars

----------------------------------------------------------------------------
(* The chat of agent_playground.py *)

Registry ==
    [chat_sessions |-> chat_sessions, gemini_clients |-> gemini_clients,
     clients_created |-> clients_created]

\* the dictionaries become those of reg
Register(reg) ==
    /\ chat_sessions' = reg.chat_sessions
    /\ gemini_clients' = reg.gemini_clients
    /\ clients_created' = reg.clients_created
    /\ UNCHANGED <<stars_file, cache_file, repos, descriptions, bm25,
                   embeddings, embedding_source, google_client, session>>

\* get_chat_session(session_id) called on its own; an exception of the
\* creation reaches the caller
GetChatSession(session_id, creation) ==
    LET g == get_chat_session(Registry, session_id, creation)
    IN  /\ Idle
        /\ clients_created < MaxClients
        /\ Register(g.reg)
        /\ last' = [NoOp EXCEPT !.op = "get_chat_session",
                                !.raised = g.raised,
                                !.chat = [NoChat EXCEPT
                                             !.used = IF g.raised THEN <<>>
                                                      ELSE <<g.chat>>,
                                             !.session_id = session_id,
                                             !.attempt = [at |-> creation,
                                                          outcome |-> ""]]]

\* chat_with_agent(message, history) up to the loop (lines 134..145);
\* gr.ChatInterface runs one call of its fn at a time (its default
\* concurrency limit), so that the calls do not interleave
ChatStart(message) ==
    /\ Idle
    /\ clients_created + retries <= MaxClients
    /\ Register(Registry)
    /\ last' = [NoOp EXCEPT !.op = "chat",
                            !.chat = [NoChat EXCEPT
                                         !.session_id = "gradio_user",
                                         !.message = message,
                                         !.left = retries,
                                         !.running = ~Blank(message) /\ retries > 0,
                                         !.reply = IF Blank(message)
                                                   THEN "enter_message"
                                                   ELSE IF retries > 0 THEN ""
                                                   ELSE "max_retries"]]

\* one turn of the loop of chat_with_agent: the provider answers or raises
ChatAttempt(attempt) ==
    LET r == chat_attempt(Registry, last.chat.left, attempt)
    IN  /\ last.op = "chat"
        /\ last.chat.running
        /\ Register(r.reg)
        /\ last' = [last EXCEPT
                       !.chat = [@ EXCEPT
                                    !.left = r.left,
                                    !.running = r.running,
                                    !.reply = r.reply,
                                    !.sends = IF r.sent THEN @ + 1 ELSE @,
                                    !.used = IF r.sent THEN Append(@, r.chat) ELSE @,
                                    !.attempt = attempt,
                                    !.seen = @ \cup {attempt.outcome}]]

NextChat ==
    \/ \E session_id \in SessionIds : \E creation \in {"ok", "client", "create"} :
          GetChatSession(session_id, creation)
    \/ \E message \in Messages : ChatStart(message)
    \/ \E attempt \in Attempts : ChatAttempt(attempt)
    \/ Return

SpecChat == Init /\ [][NextChat]_vars

NextFetch ==
    \/ \E api \in Apis : \E pattern \in StarPatterns : RawFetch(api, pattern)
    \/ \E api \in Apis : \E pattern \in StarPatterns :
           FetchUserStars(api, pattern)
    \/ Return

SpecFetch == Init /\ [][NextFetch]_vars

----------------------------------------------------------------------------
(* Claims *)

\* C1: search returns at most limit documents, whatever the strategy.
C1_AtMostLimit ==
    (last.op = "search" /\ ~last.raised) => Len(last.result) <= last.limit

\* a hybrid search whose result was cut to a limit below the corpus size
C1_Witness ==
    /\ last.op = "search"
    /\ last.path = "hybrid"
    /\ last.limit > 0
    /\ Len(last.result) = last.limit
    /\ Len(last.fused) > last.limit

\* C2: with no documents loaded (stars file absent or holding an empty
\* list) search returns the empty list and does not raise.
C2_EmptyCorpusEmptyResult ==
    (last.op = "search" /\ repos = <<>>) => (last.result = <<>> /\ ~last.raised)

\* a search with a non-empty query on a searcher built without a stars file
C2_Witness ==
    /\ last.op = "search"
    /\ ~stars_file.exists
    /\ repos = <<>>
    /\ last.query # <<>>
    /\ last.limit > 0
    /\ last.result = <<>>

\* C3: after a provider failure during the build the vector index stays
\* absent and every search is answered by BM25 ranking, without raising.
C3_BuildFailureDegradesToBm25 ==
    session.build_failed =>
        /\ ~embeddings.present
        /\ last.op = "search" =>
              /\ ~last.raised
              /\ last.path = "bm25"
              /\ last.result = bm25_search(Self, last.query, last.limit).result

\* a search that returned documents after the build failed
C3_Witness ==
    /\ session.build_failed
    /\ last.op = "search"
    /\ last.result # <<>>

\* C4: after a provider failure during the build embedding_source is no
\* longer "google", and the fetch status does not report Gemini embeddings.
C4_SourceDowngraded ==
    session.build_failed =>
        /\ embedding_source # "google"
        /\ last.op = "fetch" => last.status = ""

\* C5: a load uses the cached vectors only if the cached source is
\* "google" and the cached vector count equals the number of documents;
\* otherwise it calls the provider and holds either no vectors or the
\* vectors the provider returned for the current documents.
C5_CacheOnlyIfValid ==
    [][(last'.op \in {"construct", "fetch"} /\ embedding_source' = "google"
            /\ descriptions' # <<>>) =>
        IF /\ cache_file.exists
           /\ cache_file.source = "google"
           /\ cache_file.has_vectors
           /\ Len(cache_file.vectors) = Len(descriptions')
        THEN /\ embeddings' = [present |-> TRUE, vectors |-> cache_file.vectors]
             /\ session'.provider_calls = 0
        ELSE /\ session'.provider_calls >= 1
             /\ ~embeddings'.present => session'.build_failed
             /\ embeddings'.present =>
                   /\ Len(embeddings'.vectors) <= Len(descriptions')
                   /\ \A i \in 1..Len(embeddings'.vectors) :
                         embeddings'.vectors[i] = EmbedText(descriptions'[i])
                   /\ cache_file' = [exists |-> TRUE, source |-> "google",
                                     has_vectors |-> TRUE,
                                     vectors |-> embeddings'.vectors]]_vars

\* a load that found a cache with another vector count and rebuilt
C5_Witness ==
    /\ last.op \in {"construct", "fetch"}
    /\ session.found = "count"
    /\ session.built
    /\ embeddings.present
    /\ Len(embeddings.vectors) = Len(repos)

\* C6: whenever a vector index is in use, the vector at position i is the
\* embedding of the document at corpus position i.
C6_VectorsMatchCorpus ==
    embeddings.present =>
        /\ Len(embeddings.vectors) <= Len(repos)
        /\ \A i \in 1..Len(embeddings.vectors) :
              embeddings.vectors[i] = EmbedText(FullText(repos[i]))

\* C7: the hybrid result is the candidates sorted, descending, by
\* 1/(60 + vector_rank) + 1/(60 + lexical_rank), each rank being the
\* document's own position in the vector and in the BM25 ordering, cut to
\* limit.
C7_FusedByOwnRanks ==
    (last.op = "search" /\ last.path = "hybrid" /\ ~last.raised) =>
        LET n      == Len(repos)
            m      == Len(embeddings.vectors)
            nb     == corpus_size(bm25.corpus)
            vs     == Eager([i \in 0..(m - 1) |->
                          CosineScore(EmbedQuery(last.query), embeddings.vectors[i + 1])], m)
            bs     == get_scores(bm25.corpus, LowerText(last.query))
            bkeys  == Eager([i \in 0..(nb - 1) |-> Rat(bs[i])], nb)
            cands  == Select([i \in 0..(n - 1) |-> bs[i] > 0 \/ i < m], n)
            c      == Len(cands)
            own    == Eager([j \in 0..(c - 1) |->
                          RatAdd(<<1, 60 + (IF cands[j + 1] < m
                                            THEN SortedPos(vs, m, cands[j + 1]) ELSE n)>>,
                                 <<1, 60 + SortedPos(bkeys, nb, cands[j + 1])>>)], c)
            order  == SortDesc(own, c)
            sorted == [j \in 1..c |-> repos[cands[order[j - 1] + 1] + 1]]
        IN  last.result = (IF last.limit >= c THEN sorted
                           ELSE SubSeq(sorted, 1, last.limit))

\* C8: in hybrid search a document with a strictly higher BM25 score and a
\* strictly higher vector similarity than another one comes before it in
\* the fused ordering.
C8_FusionMonotone ==
    (last.op = "search" /\ last.path = "hybrid" /\ ~last.raised) =>
        LET n   == Len(repos)
            m   == Len(embeddings.vectors)
            vs  == Eager([i \in 0..(m - 1) |->
                       CosineScore(EmbedQuery(last.query), embeddings.vectors[i + 1])], m)
            bs  == get_scores(bm25.corpus, LowerText(last.query))
            At(x) == CHOOSE j \in 1..Len(last.fused) : last.fused[j] = x
        IN  \A a, b \in 0..((IF m < n THEN m ELSE n) - 1) :
                (bs[a] > bs[b] /\ RatGt(vs[a], vs[b])) => At(a) < At(b)

\* C9: in hybrid search the lexical rank of a document is the sentinel
\* (the corpus size) exactly when its BM25 score is not positive; a
\* document with a positive BM25 score gets its own position in the BM25
\* ordering.
C9_SentinelIffNotPositive ==
    (last.op = "search" /\ last.path = "hybrid" /\ ~last.raised) =>
        LET n     == Len(repos)
            nb    == corpus_size(bm25.corpus)
            bs    == get_scores(bm25.corpus, LowerText(last.query))
            bkeys == Eager([i \in 0..(nb - 1) |-> Rat(bs[i])], nb)
        IN  \A i \in 0..(n - 1) :
                /\ (bm25_ranks_get(bs, nb, i, n) = n) <=> ~(bs[i] > 0)
                /\ bs[i] > 0 => bm25_ranks_get(bs, nb, i, n) = SortedPos(bkeys, nb, i)

SharesTerm(query, corpus) ==
    \E t \in 1..Len(query) : \E d \in 1..Len(corpus) :
        \E w \in 1..Len(corpus[d]) :
            Lower(query[t]) = Lower(FullText(corpus[d])[w])

\* C11: a query that shares no term with any document, the empty query
\* included, yields the empty list from bm25_search and from
\* simple_keyword_search.
C11_NoMatchEmpty ==
    (/\ last.op \in {"bm25_search", "simple_keyword_search"}
     /\ ~SharesTerm(last.query, repos))
    => (last.result = <<>> /\ ~last.raised)

\* C12: bm25_search returns the documents in descending order of their
\* BM25 score for the query, documents with equal scores in corpus order,
\* cut to limit.
C12_DescendingStable ==
    (last.op = "bm25_search" /\ last.path = "bm25" /\ ~last.raised) =>
        LET n      == Len(repos)
            scores == get_scores(bm25.corpus, LowerText(last.query))
            keys   == [i \in 0..(n - 1) |-> Rat(scores[i])]
            order  == SortDesc(keys, n)
        IN  last.result = Truncate([j \in 1..n |-> repos[order[j - 1] + 1]], last.limit)

\* the number of lower-cased terms of the query that occur as substrings of
\* the lower-cased search text of the repository
TermCount(query, repo) ==
    Cardinality({t \in 1..Len(query) :
        \E w \in 1..Len(FullText(repo)) :
            IsSubstring(Lower(query[t]), Lower(FullText(repo)[w]))})

\* the position in the corpus of a returned repository
CorpusIndex(repo) == CHOOSE i \in 1..Len(repos) : repos[i] = repo

\* C13: simple_keyword_search returns exactly the documents with a
\* positive term count, by descending count, equal counts in corpus order,
\* cut to limit.
C13_KeywordRanking ==
    last.op = "simple_keyword_search" =>
        LET res     == last.result
            q       == last.query
            matches == {i \in 1..Len(repos) : TermCount(q, repos[i]) > 0}
            Before(i, j) ==
                \/ TermCount(q, repos[i]) > TermCount(q, repos[j])
                \/ TermCount(q, repos[i]) = TermCount(q, repos[j]) /\ i < j
        IN  /\ ~last.raised
            /\ Len(res) = IF Cardinality(matches) < last.limit
                          THEN Cardinality(matches) ELSE last.limit
            /\ \A a \in 1..Len(res) : res[a] \in Range(repos)
            /\ \A a \in 1..Len(res) : CorpusIndex(res[a]) \in matches
            /\ \A a, b \in 1..Len(res) :
                    a < b => Before(CorpusIndex(res[a]), CorpusIndex(res[b]))
            /\ \A a \in 1..Len(res) : \A i \in matches :
                    (\A b \in 1..Len(res) : CorpusIndex(res[b]) # i)
                        => Before(CorpusIndex(res[a]), i)

\* a keyword search whose sort moved a later document to the front and
\* whose limit cut the list
C13_Witness ==
    /\ last.op = "simple_keyword_search"
    /\ Len(last.result) = 2
    /\ Len(repos) >= 3
    /\ last.result[1] # repos[1]
    /\ TermCount(last.query, last.result[2]) > 0

\* C14: a search call is hybrid iff the vectors and the BM25 index are both
\* present at the call, lexical-only iff the BM25 index is present and the
\* vectors are absent, substring fallback iff there is no BM25 index.  A
\* hybrid call whose query embedding fails ends in its BM25 fallback.
C14_StrategyFromCurrentIndices ==
    last.op = "search" =>
        /\ last.path \in {"hybrid", "hybrid_to_bm25"}
                <=> (embeddings.present /\ bm25.built)
        /\ last.path = "bm25" <=> (bm25.built /\ ~embeddings.present)
        /\ last.path = "keyword" <=> ~bm25.built

\* a lexical-only search on a searcher that was constructed with the
\* provider and whose reload lost the vectors of an earlier load
C14_Witness ==
    /\ last.op = "search"
    /\ last.path = "bm25"
    /\ embedding_source = "google"
    /\ session.build_failed
    /\ session.found = "count"

\* the provider does on every batch what it did in the load that made the
\* current searcher, when that load called it
ProviderAsBefore(outcomes) ==
    (session.built \/ session.build_failed) =>
        \A j \in DOMAIN outcomes :
            outcomes[j] = IF session.build_failed THEN "fail"
                          ELSE IF Len(embeddings.vectors) < Len(descriptions)
                          THEN "short" ELSE "ok"

\* every search on the searchers a and b returns the same list, or raises
\* on both
SameSearches(a, b) ==
    \A query \in Queries : \A limit \in Limits : \A provider_ok \in BOOLEAN :
        LET ra == search(a, query, limit, provider_ok)
            rb == search(b, query, limit, provider_ok)
        IN  ra.result = rb.result /\ ra.raised = rb.raised

C16_LoadReplacesCorpus ==
    last.op \in {"construct", "load_data"} =>
        /\ repos = IF stars_file.exists THEN stars_file.repos ELSE <<>>
        /\ (~stars_file.exists \/ stars_file.repos = <<>>) =>
               \A query \in Queries : \A limit \in Limits :
                  \A provider_ok \in BOOLEAN :
                      LET r == search(Self, query, limit, provider_ok)
                      IN  r.result = <<>> /\ ~r.raised

\* the batches of at most batch_size consecutive elements of descs, in order
RECURSIVE Batches(_)
Batches(descs) ==
    IF descs = <<>> THEN <<>>
    ELSE IF Len(descs) <= batch_size THEN <<descs>>
    ELSE <<SubSeq(descs, 1, batch_size)>>
             \o Batches(SubSeq(descs, batch_size + 1, Len(descs)))

\* C17: a build calls the provider with the consecutive batches of at most
\* 100 descriptions, in corpus order, up to and including the first batch
\* that fails; when every batch succeeds that is ceil(N / 100) calls and
\* the vectors are those of the descriptions in corpus order.
C17_BatchesInOrder ==
    last.op = "build" =>
        LET b       == last.build
            n       == Len(b.descs)
            all     == Batches(b.descs)
            fails   == {j \in DOMAIN b.outcomes : b.outcomes[j] = "fail"}
            allOk   == \A j \in DOMAIN b.outcomes : b.outcomes[j] = "ok"
            calls   == IF fails = {} THEN Len(all)
                       ELSE CHOOSE j \in fails : \A x \in fails : j <= x
        IN  /\ b.sent = SubSeq(all, 1, calls)
            /\ \A j \in 1..Len(b.sent) : Len(b.sent[j]) <= 100
            /\ fails = {} => /\ Len(b.sent) * 100 >= n
                             /\ (Len(b.sent) - 1) * 100 < n \/ n = 0
            /\ b.present <=> fails = {}
            /\ allOk => b.vectors = [i \in 1..n |-> EmbedText(b.descs[i])]

\* a build of three batches whose second batch failed
C17_Witness ==
    /\ last.op = "build"
    /\ Len(last.build.descs) > 2 * batch_size
    /\ last.build.outcomes[1] = "ok"
    /\ last.build.outcomes[2] = "fail"
    /\ Len(last.build.sent) = 2

\* C18: after a load that built one vector per document, the cache holds
\* ("google", those vectors), and a further load of the same stars file
\* with the provider, by a new searcher or by this one, takes exactly those
\* vectors from the cache and does not call the provider, whatever the
\* provider would do.
C18_CacheRoundTrip ==
    (/\ last.op \in {"construct", "fetch"}
     /\ session.built
     /\ Len(embeddings.vectors) = Len(descriptions)) =>
        /\ cache_file = [exists |-> TRUE, source |-> "google",
                         has_vectors |-> TRUE, vectors |-> embeddings.vectors]
        /\ \A outcomes \in Outcomes(Len(stars_file.repos)) :
               LET again  == StarSearcher(TRUE, stars_file, cache_file, outcomes)
                   reload == load_data(Self, stars_file, cache_file, outcomes)
               IN  /\ again.self.embeddings = embeddings
                   /\ again.session.provider_calls = 0
                   /\ again.session.found = "hit"
                   /\ again.cache = cache_file
                   /\ reload.self.embeddings = embeddings
                   /\ reload.session.provider_calls = 0
                   /\ reload.session.found = "hit"

\* a fetch that built the vectors of several documents and stored them
C18_Witness ==
    /\ last.op = "fetch"
    /\ session.built
    /\ session.provider_calls = 1
    /\ Len(embeddings.vectors) = Len(descriptions)
    /\ Len(descriptions) >= 2
    /\ cache_file.vectors = embeddings.vectors

\* the stars of the repository the API lists at place id
StarsAt(pattern, id) == pattern[(id % Len(pattern)) + 1]

\* the API has a repository at place id (the places of a page are
\* per_page ones, a shorter page leaves the last of them empty)
Listed(api, id) ==
    ((id - 1) % per_page) + 1
        <= PageLen(PageKind(api, ((id - 1) \div per_page) + 1))

\* result holds the repositories of the pages 1..n with at least 10 stars,
\* each once, in the order of the API
KeptOfPages(result, f, n) ==
    LET ids == {id \in 1..(n * per_page) :
                   Listed(f.api, id) /\ StarsAt(f.pattern, id) >= 10}
    IN  /\ Len(result) = Cardinality(ids)
        /\ \A i \in 1..Len(result) :
               /\ result[i].full_name \in ids
               /\ result[i].stars = StarsAt(f.pattern, result[i].full_name)
               /\ i > 1 => result[i - 1].full_name < result[i].full_name

\* the number of pages fetched: the last requested page counts if it was
\* answered with status 200
FetchedPages(f) ==
    LET n == Len(f.requested)
    IN  IF n > 0 /\ PageKind(f.api, f.requested[n]) \in {"status", "throws"}
        THEN n - 1 ELSE n

\* C19: raw_fetch_user_stars returns exactly the repositories of the
\* fetched pages with at least 10 stars, in the order of the API.
C19_ExactlyAtThreshold ==
    last.op = "raw_fetch" =>
        LET f == last.fetch
        IN  /\ f.requested = [p \in 1..Len(f.requested) |-> p]
            /\ KeptOfPages(last.result, f, FetchedPages(f))

\* a fetch over two pages that kept repositories of both and dropped some
C19_Witness ==
    /\ last.op = "raw_fetch"
    /\ Len(last.fetch.requested) >= 2
    /\ Len(last.result) > per_page
    /\ Len(last.result) < Len(PagesData(last.fetch.api, last.fetch.pattern, 2))
    /\ \E i \in 1..Len(last.result) : last.result[i].stars = 10

\* C20: raw_fetch_user_stars does not raise; when the request of page p
\* gets a status other than 200 or raises, no further page is requested
\* and the result is what the pages before p gave.
C20_StopsAtFailedPage ==
    last.op = "raw_fetch" =>
        /\ ~last.raised
        /\ \A p \in 1..Len(last.fetch.requested) :
               PageKind(last.fetch.api, p) \in {"status", "throws"} =>
                  /\ Len(last.fetch.requested) = p
                  /\ KeptOfPages(last.result, last.fetch, p - 1)
                  /\ p = 1 => last.result = <<>>

\* a fetch whose second request failed after a first page with kept
\* repositories, more pages being there
C20_Witness ==
    /\ last.op = "raw_fetch"
    /\ Len(last.fetch.requested) = 2
    /\ Len(last.fetch.api) >= 3
    /\ PageKind(last.fetch.api, 2) \in {"status", "throws"}
    /\ PageKind(last.fetch.api, 3) = "full"
    /\ last.result # <<>>

\* C21: raw_fetch_user_stars requests the pages 1, 2, 3, ... once each, at
\* most 50 of them, and the last page it requests is the first one that is
\* not answered with 100 repositories (the 50th when there is none).
C21_BoundedPagination ==
    last.op = "raw_fetch" =>
        LET f   == last.fetch
            n   == Len(f.requested)
            End == {p \in 1..50 : PageKind(f.api, p) # "full"}
        IN  /\ n >= 1 /\ n <= 50
            /\ \A p \in 1..n : f.requested[p] = p
            /\ n = IF End = {} THEN 50 ELSE CHOOSE p \in End : \A x \in End : p <= x

\* a fetch that the limit of 50 pages ended
C21_Witness ==
    /\ last.op = "raw_fetch"
    /\ Len(last.fetch.requested) = 50
    /\ PageKind(last.fetch.api, 50) = "full"
    /\ Len(last.result) > 0

\* the API answers every request with a list and its last listed answer is
\* a page of fewer than 100 repositories: the user has finitely many stars
FiniteStars(api) ==
    /\ api # <<>>
    /\ \A p \in 1..Len(api) : api[p] \notin {"status", "throws"}
    /\ api[Len(api)] # "full"

\* the first page of fewer than 100 repositories
LastPageOf(api) ==
    CHOOSE p \in 1..Len(api) :
        api[p] # "full" /\ \A q \in 1..(p - 1) : api[q] = "full"

\* C22: fetch_stars.fetch_user_stars returns the repositories with at least
\* STAR_LIMIT stars of every page of the user's stars, up to the first page
\* that is empty or has fewer than 100 repositories.
C22_FetchesEveryPage ==
    (last.op = "fetch_user_stars" /\ FiniteStars(last.fetch.api)) =>
        KeptOfPages(last.result, last.fetch, LastPageOf(last.fetch.api))

\* C23: _search_stars_impl never raises and returns one of its messages;
\* when the stars file does not exist the message is "Error: No data found
\* for user ...", no searcher is constructed and no search runs.
C23_SearchStarsNoData ==
    [][last'.op = "search_stars" =>
          /\ ~last'.raised
          /\ last'.tool.message \in {"no_data", "no_matches", "results", "error"}
          /\ ~stars_file.exists =>
                /\ last'.tool.message = "no_data"
                /\ ~last'.tool.constructed /\ ~last'.tool.searched
                /\ UNCHANGED <<repos, descriptions, bm25, embeddings,
                               embedding_source, google_client, cache_file,
                               session>>]_vars

\* a search of a user without stored stars, after a searcher with a corpus
\* was constructed
C23_Witness ==
    /\ last.op = "search_stars"
    /\ last.tool.message = "no_data"
    /\ ~stars_file.exists
    /\ repos # <<>>

\* C24: after _fetch_stars_impl returned its success message, the stored
\* stars are the list the fetch returned, the searcher was constructed and
\* holds that list, and the message reports its length, with a token and
\* without.
C24_FetchStoresThenIndexes ==
    (last.op = "fetch" /\ last.tool.message = "fetched") =>
        /\ stars_file = [exists |-> TRUE, repos |-> last.result]
        /\ last.tool.constructed
        /\ repos = last.result
        /\ Len(descriptions) = Len(last.result)
        /\ last.tool.count = Len(last.result)

\* a fetch without a token that replaced stored stars by other ones
C24_Witness ==
    /\ last.op = "fetch" /\ last.tool.message = "fetched"
    /\ ~last.tool.token
    /\ Len(last.result) >= 2
    /\ repos = last.result
    /\ embeddings.present

\* C25: a search leaves repos, descriptions, the BM25 index, the vectors,
\* embedding_source and the cache file as they were; a searcher with
\* vectors and a BM25 index ranks with hybrid when the embedding of the
\* query succeeds and falls back to BM25 when it fails, and after a
\* fallback it still has both for the next search.
C25_SearchReadOnly ==
    [][last'.op = "search" =>
          /\ UNCHANGED <<repos, descriptions, bm25, embeddings,
                         embedding_source, cache_file>>
          /\ CallsProvider =>
                last'.path = IF last'.provider_ok THEN "hybrid"
                                                  ELSE "hybrid_to_bm25"
          /\ last'.path = "hybrid_to_bm25" => CallsProvider']_vars

\* a search that fell back to BM25 because the embedding of the query
\* failed, the vectors still held
C25_Witness ==
    /\ last.op = "search"
    /\ ~last.provider_ok
    /\ last.path = "hybrid_to_bm25"
    /\ last.result # <<>>
    /\ embeddings.present /\ bm25.built /\ embedding_source = "google"

\* C26: after a load the derived indices agree with the corpus: one
\* description per repository, a BM25 index (if any) built from exactly
\* the current descriptions, and vectors (if any) one per repository.
C26_IndicesAgreeWithCorpus ==
    last.op \in {"construct", "load_data"} =>
        /\ Len(descriptions) = Len(repos)
        /\ bm25.built =>
              /\ corpus_size(bm25.corpus) = Len(repos)
              /\ bm25.corpus = [i \in 1..Len(descriptions) |->
                                    LowerText(descriptions[i])]
        /\ embeddings.present => Len(embeddings.vectors) = Len(repos)

\* C27: a build that failed leaves the cache file as it was; the cache
\* file changes only when no batch of the build failed, and then it holds
\* ("google", the vectors of the build).
C27_FailedBuildKeepsCache ==
    [][last'.op = "load_or_build" =>
          LET b == last'.build
          IN  /\ b.failed => cache_file' = cache_file
              /\ cache_file' # cache_file =>
                    /\ ~b.failed
                    /\ \A j \in 1..Len(b.outcomes) : b.outcomes[j] # "fail"
                    /\ cache_file' = [exists |-> TRUE, source |-> "google",
                                      has_vectors |-> TRUE,
                                      vectors |-> b.vectors]]_vars

\* a build that failed at its second batch, the cache of an earlier build
\* still there
C27_Witness ==
    /\ last.op = "load_or_build"
    /\ last.build.failed
    /\ last.build.outcomes[1] = "ok"
    /\ last.build.outcomes[2] = "fail"
    /\ cache_file.exists
    /\ Len(cache_file.vectors) # Len(last.build.descs)

\* C28: when the request of the first page fails, _fetch_stars_impl leaves
\* the stored stars file as it was.
C28_FailedFetchKeepsStoredStars ==
    [][(/\ stars_file.exists
        /\ last'.op = "fetch"
        /\ last'.tool.first \in {"status", "throws"}) =>
          stars_file' = stars_file]_vars

\* C29: chat_with_agent never raises; a blank message is answered at once
\* without an attempt; every turn of the loop that does not end the call
\* uses up one of the 3 retries, whether the error was a closed client or
\* a quota, so that the call ends after at most 3 calls of send_message,
\* with one of its replies.
C29_ChatTerminates ==
    [][last'.op = "chat" =>
          LET c == last'.chat
          IN  /\ ~last'.raised
              /\ c.sends <= 3
              /\ c.left >= 0
              /\ c.running =>
                    c.left > 0 /\ c.sends + c.left <= 3 /\ c.reply = ""
              /\ ~c.running =>
                    c.reply \in {"enter_message", "text", "completed",
                                 "quota_exceeded", "session_reset",
                                 "unexpected_error", "max_retries"}
              /\ Blank(c.message) =>
                    /\ ~c.running /\ c.sends = 0 /\ c.reply = "enter_message"
                    /\ UNCHANGED <<chat_sessions, gemini_clients, clients_created>>
              /\ (last.op = "chat" /\ c.running) =>
                    /\ c.left = last.chat.left - 1
                    /\ c.attempt.outcome \in {"closed", "quota"}]_vars

\* a call that used its three retries on a closed client and on quota
\* errors
C29_Witness ==
    /\ last.op = "chat"
    /\ ~last.chat.running
    /\ last.chat.sends = 3
    /\ last.chat.left = 0
    /\ {"closed", "quota"} \subseteq last.chat.seen
    /\ last.chat.reply = "max_retries"

\* C30: every session id that has a chat has a client; get_chat_session
\* returns the chat the session id has and otherwise a chat of a client
\* created by this call, registered under the id; a turn of chat_with_agent
\* sends to that chat, keeps it unless the error names a closed client or
\* an expired session, and after such an error the id has neither chat
\* nor client; the entries of other ids stay.
C30_SessionRegistry ==
    [][LET id    == last'.chat.session_id
           had   == id \in DOMAIN chat_sessions
           fresh == clients_created + 1
       IN  /\ (DOMAIN chat_sessions') \subseteq (DOMAIN gemini_clients')
           /\ last'.op = "get_chat_session" =>
                 /\ had => /\ last'.chat.used = <<chat_sessions[id]>>
                           /\ UNCHANGED <<chat_sessions, gemini_clients,
                                          clients_created>>
                 /\ (~had /\ ~last'.raised) =>
                       /\ last'.chat.used = <<fresh>>
                       /\ id \in DOMAIN chat_sessions'
                       /\ chat_sessions'[id] = fresh
                       /\ gemini_clients'[id] = fresh
           /\ (last.op = "chat" /\ last'.op = "chat") =>
                 /\ last'.chat.sends = last.chat.sends + 1 =>
                       last'.chat.used[last'.chat.sends] =
                           IF had THEN chat_sessions[id] ELSE fresh
                 /\ last'.chat.attempt.outcome \in {"closed", "expired"} =>
                       /\ id \notin DOMAIN chat_sessions'
                       /\ id \notin DOMAIN gemini_clients'
                 /\ (had /\ last'.chat.attempt.outcome \notin {"closed", "expired"}) =>
                       /\ id \in DOMAIN chat_sessions'
                       /\ chat_sessions'[id] = chat_sessions[id]
                 /\ \A other \in SessionIds \ {id} :
                       /\ (other \in DOMAIN chat_sessions')
                              = (other \in DOMAIN chat_sessions)
                       /\ other \in DOMAIN chat_sessions =>
                              chat_sessions'[other] = chat_sessions[other]]_vars

\* a call whose first attempt found the client closed and whose second
\* attempt was answered by the chat of a new client, now registered
C30_Witness ==
    /\ last.op = "chat"
    /\ last.chat.reply = "text"
    /\ last.chat.seen = {"closed", "text"}
    /\ Len(last.chat.used) = 2
    /\ last.chat.used[2] > last.chat.used[1]
    /\ "gradio_user" \in DOMAIN chat_sessions
    /\ chat_sessions["gradio_user"] = last.chat.used[2]
    /\ gemini_clients["gradio_user"] = last.chat.used[2]
    /\ "default" \in DOMAIN chat_sessions

====
